---- MODULE Spec2Model ----
(***************************************************************************)
(* Model of target_azureblobstorage.py: a Singer target that reads         *)
(* newline-delimited JSON messages, validates RECORDs against the schema   *)
(* registered for their stream, appends them to per-stream buffer files in *)
(* a working directory and, on a STATE message, gzips and uploads every    *)
(* file of that directory to Azure blob storage.                           *)
(***************************************************************************)
EXTENDS Integers, Sequences, FiniteSets, TLC

\* ------------------------------------------------------------------------
\* Bounds of the model
\* ------------------------------------------------------------------------
\* number of input lines read by one run
MaxLines == 5
\* last value of the wall clock (seconds)
MaxClock == 1

\* ------------------------------------------------------------------------
\* Program constants
\* ------------------------------------------------------------------------
\* def persist_lines(block_blob_service, blob_container_name, lines)
PersistLinesParams == 3
\* persist_lines(block_blob_service, blob_container_name, input, buffer)
MainCallArgs == 4

\* ------------------------------------------------------------------------
\* Input alphabet
\* ------------------------------------------------------------------------
\* Names are sequences of text chunks, so that str.replace(".json", "") and
\* concatenation are computed rather than assumed.
StreamNames == { <<"users">>, <<"users", ".json">> }

Records == { [id |-> 1], [id |-> 2], [name |-> 1] }

\* JSON schemas (Draft 4), reduced to their "required" keyword
Schemas == { [required |-> {"id"}], [required |-> {"name"}] }

\* STATE values; currently_syncing holds a JSON literal or is absent
StateValues ==
    { [currently_syncing |-> c, bookmark |-> 1] : c \in {"true", "false", "null"} }
    \cup { [currently_syncing |-> "false", bookmark |-> 2] }
    \cup { [bookmark |-> 1] }

RecordMsgs ==
    { [type |-> "RECORD", stream |-> s, record |-> r] :
          s \in StreamNames, r \in Records }
    \cup { [type |-> "RECORD", record |-> [id |-> 1]] }
    \cup { [type |-> "RECORD", stream |-> <<"users">>] }

SchemaMsgs ==
    { [type |-> "SCHEMA", stream |-> s, schema |-> sc,
       key_properties |-> <<"id">>] : s \in StreamNames, sc \in Schemas }
    \cup { [type |-> "SCHEMA", stream |-> <<"users">>,
            schema |-> [required |-> {"id"}]] }
    \cup { [type |-> "SCHEMA", stream |-> <<"users">>,
            key_properties |-> <<"id">>] }
    \cup { [type |-> "SCHEMA", schema |-> [required |-> {"id"}],
            key_properties |-> <<"id">>] }

StateMsgs ==
    { [type |-> "STATE", value |-> v] : v \in StateValues }
    \cup { [type |-> "STATE"] }

OtherMsgs ==
    { [type |-> "ACTIVATE_VERSION", stream |-> <<"users">>, version |-> 1],
      [type |-> "BOGUS"],
      [stream |-> <<"users">>] }

Objects == RecordMsgs \cup SchemaMsgs \cup StateMsgs \cup OtherMsgs

\* A text is a JSON document as written: the object it denotes, its layout
\* ("canonical" is the layout json.dumps produces) and whether it ends with a
\* newline.  Lines iterated from stdin keep their newline.
GoodLines == { [valid |-> TRUE, obj |-> o, layout |-> "canonical", eol |-> TRUE] :
                  o \in Objects }
             \cup
             { [valid |-> TRUE, obj |-> o, layout |-> "compact", eol |-> TRUE] :
                  o \in { [type |-> "RECORD", stream |-> <<"users">>,
                           record |-> [id |-> 1]],
                          [type |-> "STATE",
                           value |-> [currently_syncing |-> "true",
                                      bookmark |-> 1]] } }

BadLine == [valid |-> FALSE, obj |-> [junk |-> 1], layout |-> "compact", eol |-> TRUE]

Lines == GoodLines \cup {BadLine}

NoLine == [valid |-> FALSE, obj |-> [junk |-> 0], layout |-> "canonical", eol |-> FALSE]

\* ------------------------------------------------------------------------
\* Pure helpers
\* ------------------------------------------------------------------------
\* Python None for the `state` variable: an option, <<>> or <<value>>
None == << >>

Has(o, k) == k \in DOMAIN o

\* json.dumps(v): canonical layout, no trailing newline
json_dumps(v) == [valid |-> TRUE, obj |-> v, layout |-> "canonical", eol |-> FALSE]

\* json.loads(text)
json_loads(t) == t.obj

\* "{}\n".format(text)
WithNewline(t) == [t EXCEPT !.eol = TRUE]

\* datetime.now().strftime('%Y%m%dT%H%M%S')
Strftime(c) == ToString(c)

\* Python truthiness of a JSON literal
Truthy(v) == v \notin {"false", "null"}

\* jsonschema Draft4Validator(schema)
Draft4Validator(schema) == [schema |-> schema]

\* validator.validate(record) does not raise
Validates(validator, record) == validator.schema.required \subseteq DOMAIN record

\* line_json['stream'] + '.json'
Filename(stream) == stream \o <<".json">>

\* _file.replace(".json", "")
ReplaceJson(name) == SelectSeq(name, LAMBDA c : c # ".json")

\* now + ".gz"
OutputFileName(ts) == <<ts, ".gz">>

\* _file.replace(".json", "") + "/" + output_file_name
BlobKey(name, ts) == ReplaceJson(name) \o <<"/">> \o OutputFileName(ts)

\* gzip of a file's contents
Gzip(content) == [gz |-> content]

EmptyDir == << >>

Put(f, k, v) == [x \in DOMAIN f \cup {k} |-> IF x = k THEN v ELSE f[x]]

Remove(f, k) == [x \in DOMAIN f \ {k} |-> f[x]]

Perms(S) ==
    { p \in [1..Cardinality(S) -> S] : \A i, j \in DOMAIN p : p[i] = p[j] => i = j }

\* ------------------------------------------------------------------------
\* State
\* ------------------------------------------------------------------------
VARIABLES
    entry,            \* how the run was started: "main" or "persist_lines"
    dir0,             \* contents of parent_dir when the run started
    pc,               \* position of the main thread
    disable_collection, \* config.get('disable_collection', False)
    tele,             \* the send_usage_stats thread
    clock,            \* wall clock, in seconds
    now,              \* persist_lines: now
    state,            \* persist_lines: state
    schemas,          \* persist_lines: schemas
    validators,       \* persist_lines: validators
    key_properties,   \* persist_lines: key_properties
    files,            \* contents of parent_dir: file name -> contents
    blobs,            \* the container: blob key -> contents
    uploads,          \* every create_blob_from_path call that succeeded
    flushNo,          \* number of flushes started
    line,             \* persist_lines: line (the last line read)
    nread,            \* number of lines read
    lastStateAt,      \* index of the last STATE line whose value was taken
    lastRecordAt,     \* index of the last RECORD line that was appended
    lastStateValue,   \* the value of that last STATE line, as an option
    declared,         \* streams a SCHEMA line was read for
    pending,          \* per stream, the RECORD lines appended since the last
                      \* completed flush
    result,           \* value returned by persist_lines
    stdout,           \* lines written to sys.stdout
    err,              \* the exception that ended the run, "" if none
    exitCode          \* -1 while running, then 0 or 1

vars == << entry, dir0,
           pc, disable_collection, tele, clock, now, state, schemas,
           validators, key_properties, files, blobs, uploads, flushNo, line,
           nread,
           lastStateAt, lastRecordAt, lastStateValue, declared, pending,
           result, stdout, err, exitCode >>

pipeVars == << now, state, schemas, validators, key_properties, files, blobs,
               uploads, flushNo, line, nread,
               lastStateAt, lastRecordAt, lastStateValue, declared, pending,
               result, stdout >>

\* A file left in the working directory by an earlier run
StaleEntry ==
    [text |-> [valid |-> TRUE,
               obj |-> [type |-> "RECORD", stream |-> <<"orders">>,
                        record |-> [id |-> 2]],
               layout |-> "canonical", eol |-> TRUE],
     sep |-> ",\n"]

StaleDir == [n \in { <<"orders", ".json">> } |-> << StaleEntry >>]

Init ==
    /\ entry \in {"main", "persist_lines"}
    /\ pc = IF entry = "main" THEN "main" ELSE "call"
    /\ disable_collection \in IF entry = "main" THEN BOOLEAN ELSE {FALSE}
    /\ tele = "none"
    /\ clock = 0
    /\ now = Strftime(0)
    /\ state = None
    /\ schemas = << >>
    /\ validators = << >>
    /\ key_properties = << >>
    /\ dir0 \in {EmptyDir, StaleDir}
    /\ files = dir0
    /\ blobs = << >>
    /\ uploads = << >>
    /\ flushNo = 0
    /\ line = NoLine
    /\ nread = 0
    /\ lastStateAt = 0
    /\ lastRecordAt = 0
    /\ lastStateValue = None
    /\ declared = {}
    /\ pending = [s \in StreamNames |-> << >>]
    /\ result = None
    /\ stdout = << >>
    /\ err = ""
    /\ exitCode = -1

\* ------------------------------------------------------------------------
\* The clock and the telemetry thread
\* ------------------------------------------------------------------------
Tick ==
    /\ pc = "loop"
    /\ clock < MaxClock
    /\ clock' = clock + 1
    /\ UNCHANGED << entry, dir0, pc, disable_collection, tele, err, exitCode >>
    /\ UNCHANGED pipeVars

\* variant: a failed request is not caught and ends the process
SendUsageStats_Raises ==
    /\ tele = "started"
    /\ tele' \in {"sent", "failed"}
    /\ IF tele' = "failed"
       THEN pc' = "failed" /\ err' = "CollectionError" /\ exitCode' = 1
       ELSE UNCHANGED << pc, err, exitCode >>
    /\ UNCHANGED << entry, dir0, disable_collection, clock >>
    /\ UNCHANGED pipeVars

\* send_usage_stats: the request succeeds, or fails and the failure is logged
SendUsageStats ==
    /\ tele = "started"
    /\ tele' \in {"sent", "failed"}
    /\ UNCHANGED << entry, dir0, pc, disable_collection, clock, err, exitCode >>
    /\ UNCHANGED pipeVars

\* ------------------------------------------------------------------------
\* main
\* ------------------------------------------------------------------------
\* main up to the call of persist_lines: load config, start the telemetry
\* thread unless disabled, build the blob service
MainStart ==
    /\ pc = "main"
    /\ tele' = IF disable_collection THEN "none" ELSE "started"
    /\ pc' = "call"
    /\ UNCHANGED << entry, dir0, disable_collection, clock, err, exitCode >>
    /\ UNCHANGED pipeVars

\* number of positional arguments the caller passes to persist_lines
CallArgs == IF entry = "main" THEN MainCallArgs ELSE PersistLinesParams

\* variant: the working directory is not cleaned
PersistLinesSetup_KeepsDir ==
    /\ state' = None
    /\ schemas' = << >>
    /\ key_properties' = << >>
    /\ validators' = << >>
    /\ now' = Strftime(clock)
    /\ files' = files

\* the state persist_lines sets up before its loop
PersistLinesSetup ==
    /\ state' = None
    /\ schemas' = << >>
    /\ key_properties' = << >>
    /\ validators' = << >>
    /\ now' = Strftime(clock)
    /\ files' = EmptyDir      \* shutil.rmtree(parent_dir); os.mkdir(parent_dir)

\* the call of persist_lines: binding the arguments, then the setup
CallPersistLines ==
    /\ pc = "call"
    /\ IF CallArgs = PersistLinesParams
       THEN /\ PersistLinesSetup
            /\ pc' = "loop"
            /\ UNCHANGED << err, exitCode >>
       ELSE /\ pc' = "failed"
            /\ err' = "TypeError"
            /\ exitCode' = 1
            /\ UNCHANGED << now, state, schemas, validators, key_properties,
                            files >>
    /\ UNCHANGED << entry, dir0,
                    disable_collection, tele, clock, blobs, uploads,
                    flushNo, line, nread,
                    lastStateAt, lastRecordAt, lastStateValue, declared, pending,
                    result,
                    stdout >>

\* ------------------------------------------------------------------------
\* persist_lines: one iteration of the loop per action
\* ------------------------------------------------------------------------
\* the loop reads the next line
CanRead == pc = "loop" /\ nread < MaxLines

Read(l) == line' = l /\ nread' = nread + 1

\* variant: the exception is logged and the loop goes on
Raise_Resumes(e) == pc' = "loop" /\ err' = e /\ exitCode' = exitCode

\* the exception ends the run
Raise(e) == pc' = "failed" /\ err' = e /\ exitCode' = 1

Continue == pc' = "loop" /\ UNCHANGED << err, exitCode >>

TypeOf(l) == IF l.valid /\ Has(l.obj, "type") THEN l.obj.type ELSE "?"

\* json.loads raises, or the object has no 'type'
ReadUndecodable ==
    /\ CanRead
    /\ \E l \in Lines :
         /\ ~l.valid \/ ~Has(l.obj, "type")
         /\ Read(l)
         /\ Raise(IF ~l.valid THEN "JSONDecodeError" ELSE "MissingType")
    /\ UNCHANGED << entry, dir0,
                    disable_collection, tele, clock, now, state, schemas,
                    validators, key_properties, files, blobs, uploads, flushNo,
                    lastStateAt, lastRecordAt, lastStateValue, declared, pending,
                    result, stdout >>

\* variant: a message of unknown type is skipped
HandleUnknownType_Skips ==
    /\ CanRead
    /\ \E l \in Lines :
         /\ l.valid /\ Has(l.obj, "type")
         /\ l.obj.type \notin {"RECORD", "STATE", "SCHEMA", "ACTIVATE_VERSION"}
         /\ Read(l)
         /\ Continue
    /\ UNCHANGED << entry, dir0,
                    disable_collection, tele, clock, now, state, schemas,
                    validators, key_properties, files, blobs, uploads, flushNo,
                    lastStateAt, lastRecordAt, lastStateValue, declared, pending,
                    result, stdout >>

\* the else branch: unknown message type
HandleUnknownType ==
    /\ CanRead
    /\ \E l \in Lines :
         /\ l.valid /\ Has(l.obj, "type")
         /\ l.obj.type \notin {"RECORD", "STATE", "SCHEMA", "ACTIVATE_VERSION"}
         /\ Read(l)
         /\ Raise("UnknownMessageType")
    /\ UNCHANGED << entry, dir0,
                    disable_collection, tele, clock, now, state, schemas,
                    validators, key_properties, files, blobs, uploads, flushNo,
                    lastStateAt, lastRecordAt, lastStateValue, declared, pending,
                    result, stdout >>

\* variant: ACTIVATE_VERSION resets the state like a RECORD
HandleActivateVersion_ClearsState ==
    /\ CanRead
    /\ \E l \in Lines :
         /\ TypeOf(l) = "ACTIVATE_VERSION"
         /\ Read(l)
         /\ Continue
    /\ state' = None
    /\ UNCHANGED << entry, dir0, disable_collection, tele, clock, now, schemas,
                    validators, key_properties, files, blobs, uploads, flushNo,
                    lastStateAt, lastRecordAt, lastStateValue, declared, pending,
                    result, stdout >>

\* t == 'ACTIVATE_VERSION': logged only
HandleActivateVersion ==
    /\ CanRead
    /\ \E l \in Lines :
         /\ TypeOf(l) = "ACTIVATE_VERSION"
         /\ Read(l)
         /\ Continue
    /\ UNCHANGED << entry, dir0,
                    disable_collection, tele, clock, now, state, schemas,
                    validators, key_properties, files, blobs, uploads, flushNo,
                    lastStateAt, lastRecordAt, lastStateValue, declared, pending,
                    result, stdout >>

\* ---- RECORD -------------------------------------------------------------
\* variant: the stream is not looked up in schemas
RecordError_NoLookup(o, sch, vals) ==
    IF ~Has(o, "stream") THEN "MissingStream"
    ELSE IF ~Has(o, "record") THEN "KeyError"
    ELSE IF o.stream \in DOMAIN vals /\ ~Validates(vals[o.stream], o.record)
         THEN "ValidationError"
    ELSE "ok"

\* variant: the record is not validated
RecordError_NoValidate(o, sch, vals) ==
    IF ~Has(o, "stream") THEN "MissingStream"
    ELSE IF o.stream \notin DOMAIN sch THEN "UnknownStream"
    ELSE IF ~Has(o, "record") THEN "KeyError"
    ELSE "ok"

\* the checks of the RECORD branch, in the order the code makes them
RecordError(o, sch, vals) ==
    IF ~Has(o, "stream") THEN "MissingStream"
    ELSE IF o.stream \notin DOMAIN sch THEN "UnknownStream"
    ELSE IF ~Has(o, "record") THEN "KeyError"
    ELSE IF ~Validates(vals[o.stream], o.record) THEN "ValidationError"
    ELSE "ok"

\* what file_obj.write(f'{line},\n') appends: the line as read, then ",\n"
Entry(l) == [text |-> l, sep |-> ",\n"]

\* variant: the buffer file is opened with "w"
AppendEntry_Truncates(fs, name, e) == Put(fs, name, << e >>)

\* open(stream_path, "a") and write
AppendEntry(fs, name, e) ==
    Put(fs, name, IF name \in DOMAIN fs THEN Append(fs[name], e) ELSE << e >>)

\* variant: the state is not reset
StateAfterRecord_Kept(st) == st

\* state = None after the write
StateAfterRecord(st) == None

HandleRecord ==
    /\ CanRead
    /\ \E l \in Lines :
         /\ TypeOf(l) = "RECORD"
         /\ Read(l)
         /\ LET o == json_loads(l)
                e == RecordError(o, schemas, validators)
            IN  IF e = "ok"
                THEN /\ files' = AppendEntry(files, Filename(o.stream), Entry(l))
                     /\ state' = StateAfterRecord(state)
                     /\ lastRecordAt' = nread + 1
                     /\ pending' = [pending EXCEPT ![o.stream] = Append(@, l)]
                     /\ Continue
                ELSE /\ Raise(e)
                     /\ UNCHANGED << files, state, lastRecordAt, pending >>
    /\ UNCHANGED << entry, dir0, disable_collection, tele, clock, now, schemas,
                    validators, key_properties, blobs, uploads, flushNo,
                    lastStateAt, lastStateValue, declared, result, stdout >>

\* ---- SCHEMA -------------------------------------------------------------
SchemaError(o) ==
    IF ~Has(o, "stream") THEN "MissingStream"
    ELSE IF ~Has(o, "schema") THEN "KeyError"
    ELSE IF ~Has(o, "key_properties") THEN "MissingKeyProperties"
    ELSE "ok"

\* variant: a validator already compiled for the stream is kept
HandleSchema_KeepsValidator ==
    /\ CanRead
    /\ \E l \in Lines :
         /\ TypeOf(l) = "SCHEMA"
         /\ Read(l)
         /\ LET o == json_loads(l)
                e == SchemaError(o)
            IN  /\ declared' = IF Has(o, "stream")
                                THEN declared \cup {o.stream} ELSE declared
                /\ IF e \in {"ok", "MissingKeyProperties"}
                   THEN /\ schemas' = Put(schemas, o.stream, o.schema)
                        /\ validators' =
                             IF o.stream \in DOMAIN validators
                             THEN validators
                             ELSE Put(validators, o.stream,
                                      Draft4Validator(o.schema))
                   ELSE UNCHANGED << schemas, validators >>
                /\ IF e = "ok"
                   THEN /\ key_properties' =
                              Put(key_properties, o.stream, o.key_properties)
                        /\ Continue
                   ELSE /\ Raise(e)
                        /\ UNCHANGED key_properties
    /\ UNCHANGED << entry, dir0,
                    disable_collection, tele, clock, now, state, files,
                    blobs, uploads, flushNo, lastStateAt, lastRecordAt,
                    lastStateValue, pending, result, stdout >>

HandleSchema ==
    /\ CanRead
    /\ \E l \in Lines :
         /\ TypeOf(l) = "SCHEMA"
         /\ Read(l)
         /\ LET o == json_loads(l)
                e == SchemaError(o)
            IN  /\ declared' = IF Has(o, "stream")
                                THEN declared \cup {o.stream} ELSE declared
                /\ IF e \in {"ok", "MissingKeyProperties"}
                   THEN /\ schemas' = Put(schemas, o.stream, o.schema)
                        /\ validators' = Put(validators, o.stream,
                                             Draft4Validator(o.schema))
                   ELSE UNCHANGED << schemas, validators >>
                /\ IF e = "ok"
                   THEN /\ key_properties' =
                              Put(key_properties, o.stream, o.key_properties)
                        /\ Continue
                   ELSE /\ Raise(e)
                        /\ UNCHANGED key_properties
    /\ UNCHANGED << entry, dir0,
                    disable_collection, tele, clock, now, state, files,
                    blobs, uploads, flushNo, lastStateAt, lastRecordAt,
                    lastStateValue, pending, result, stdout >>

\* ---- STATE --------------------------------------------------------------
\* variant: the value is dropped
NewState_Unset(value) == None

\* state = line_json['value']
NewState(value) == << value >>

\* variant: every STATE flushes
ShouldFlush_Always(value) == TRUE

\* not state['currently_syncing'] and os.path.exists(parent_dir)
ShouldFlush(value) == ~Truthy(value.currently_syncing)

\* variant: the uncompressed file is not removed
RemoveFlushed_KeepsSource(fs, file_in, file_out) == Remove(fs, file_out)

\* os.remove(file_path_in); os.remove(file_path_out)
RemoveFlushed(fs, file_in, file_out) == Remove(Remove(fs, file_in), file_out)

\* gzip file_path_in into file_path_out
Compress(fs, file_in, file_out) == Put(fs, file_out, Gzip(fs[file_in]))

\* variant: a failed upload removes the local files before raising
RECURSIVE FlushFrom_CleansUp(_, _, _, _, _, _, _)
FlushFrom_CleansUp(listing, i, failAt, ts, fno, at, d) ==
    IF i > Len(listing)
    THEN [d EXCEPT !.ok = TRUE]
    ELSE LET _file == listing[i]
             out == OutputFileName(ts)
             zipped == Compress(d.files, _file, out)
             key == BlobKey(_file, ts)
         IN  IF i = failAt
             THEN [d EXCEPT !.files = RemoveFlushed(zipped, _file, out),
                            !.ok = FALSE]
             ELSE FlushFrom_CleansUp(listing, i + 1, failAt, ts, fno, at,
                    [files |-> RemoveFlushed(zipped, _file, out),
                     blobs |-> Put(d.blobs, key, zipped[out]),
                     uploads |-> Append(d.uploads,
                                   [flush |-> fno, file |-> _file, key |-> key,
                                    ts |-> ts, at |-> at, data |-> zipped[out]]),
                     ok |-> TRUE])

\* The body of "for _file in os.listdir(parent_dir)" from the i-th name of the
\* listing on.  failAt is the position whose create_blob_from_path raises
\* (0: none does).  d carries the directory, the container and the upload log.
RECURSIVE FlushFrom(_, _, _, _, _, _, _)
FlushFrom(listing, i, failAt, ts, fno, at, d) ==
    IF i > Len(listing)
    THEN [d EXCEPT !.ok = TRUE]
    ELSE LET _file == listing[i]
             out == OutputFileName(ts)
             zipped == Compress(d.files, _file, out)
             key == BlobKey(_file, ts)
         IN  IF i = failAt
             THEN [d EXCEPT !.files = zipped, !.ok = FALSE]
             ELSE FlushFrom(listing, i + 1, failAt, ts, fno, at,
                    [files |-> RemoveFlushed(zipped, _file, out),
                     blobs |-> Put(d.blobs, key, zipped[out]),
                     uploads |-> Append(d.uploads,
                                   [flush |-> fno, file |-> _file, key |-> key,
                                    ts |-> ts, at |-> at, data |-> zipped[out]]),
                     ok |-> TRUE])

\* the checks of the STATE branch before the flush
StateError(o) ==
    IF ~Has(o, "value") THEN "KeyError"
    ELSE IF ~Has(o.value, "currently_syncing") THEN "KeyError"
    ELSE "ok"

HandleState ==
    /\ CanRead
    /\ \E l \in Lines :
         /\ TypeOf(l) = "STATE"
         /\ Read(l)
         /\ LET o == json_loads(l)
                e == StateError(o)
            IN  /\ IF Has(o, "value")
                   THEN /\ state' = NewState(o.value)
                        /\ lastStateAt' = nread + 1
                        /\ lastStateValue' = << o.value >>
                   ELSE UNCHANGED << state, lastStateAt, lastStateValue >>
                /\ IF e # "ok"
                   THEN /\ Raise(e)
                        /\ UNCHANGED << files, blobs, uploads, flushNo,
                                        pending >>
                   ELSE IF ~ShouldFlush(o.value)
                   THEN /\ Continue
                        /\ UNCHANGED << files, blobs, uploads, flushNo,
                                        pending >>
                   ELSE \E listing \in Perms(DOMAIN files) :
                        \E failAt \in 0..Len(listing) :
                          LET d == FlushFrom(listing, 1, failAt, now,
                                             flushNo + 1, clock,
                                             [files |-> files, blobs |-> blobs,
                                              uploads |-> uploads, ok |-> TRUE])
                          IN  /\ files' = d.files
                              /\ blobs' = d.blobs
                              /\ uploads' = d.uploads
                              /\ flushNo' = flushNo + 1
                              /\ IF d.ok
                                 THEN /\ Continue
                                      /\ pending' =
                                           [s \in StreamNames |-> << >>]
                                 ELSE /\ Raise("UploadError")
                                      /\ UNCHANGED pending
    /\ UNCHANGED << entry, dir0, disable_collection, tele, clock, now, schemas,
                    validators, key_properties, lastRecordAt, declared, result,
                    stdout >>

\* ---- end of input ---------------------------------------------------------
\* return state
EndOfInput ==
    /\ pc = "loop"
    /\ result' = state
    /\ pc' = "returned"
    /\ UNCHANGED << entry, dir0,
                    disable_collection, tele, clock, now, state, schemas,
                    validators, key_properties, files, blobs, uploads, flushNo,
                    line, nread,
                    lastStateAt, lastRecordAt, lastStateValue, declared, pending,
                    stdout, err,
                    exitCode >>

\* emit_state(state): the lines sys.stdout holds afterwards
emit_state(st, out) ==
    IF st # None THEN Append(out, WithNewline(json_dumps(st[1]))) ELSE out

\* emit_state(state), then the normal exit
EmitState ==
    /\ pc = "returned"
    /\ stdout' = emit_state(result, stdout)
    /\ pc' = "done"
    /\ exitCode' = 0
    /\ UNCHANGED << entry, dir0,
                    disable_collection, tele, clock, now, state, schemas,
                    validators, key_properties, files, blobs, uploads, flushNo,
                    line, nread,
                    lastStateAt, lastRecordAt, lastStateValue, declared, pending,
                    result, err >>

\* ------------------------------------------------------------------------
Next ==
    \/ Tick
    \/ SendUsageStats
    \/ MainStart
    \/ CallPersistLines
    \/ ReadUndecodable
    \/ HandleUnknownType
    \/ HandleActivateVersion
    \/ HandleRecord
    \/ HandleSchema
    \/ HandleState
    \/ EndOfInput
    \/ EmitState

Spec == Init /\ [][Next]_vars

TypeOK ==
    /\ entry \in {"main", "persist_lines"}
    /\ pc \in {"main", "call", "loop", "returned", "done", "failed"}
    /\ tele \in {"none", "started", "sent", "failed"}
    /\ clock \in 0..MaxClock
    /\ nread \in 0..MaxLines
    /\ exitCode \in {-1, 0, 1}

\* ------------------------------------------------------------------------
\* Vocabulary of the properties
\* ------------------------------------------------------------------------
\* the step reads one line of the given type
Reads(t) == pc = "loop" /\ nread' = nread + 1 /\ TypeOf(line') = t

\* l is a STATE line whose value carries currently_syncing = c
IsStateWith(l, c) ==
    /\ TypeOf(l) = "STATE"
    /\ Has(l.obj, "value")
    /\ Has(l.obj.value, "currently_syncing")
    /\ l.obj.value.currently_syncing = c

\* positions of the upload log that belong to flush n
UploadsOf(log, n) == { i \in DOMAIN log : log[i].flush = n }

\* the contents of a buffer file, empty if the file does not exist
ContentOf(fs, name) == IF name \in DOMAIN fs THEN fs[name] ELSE << >>

\* ------------------------------------------------------------------------
\* C1: a STATE with currently_syncing = false whose uploads all succeed
\* uploads each buffer file present in the working directory exactly once
\* during that flush (the gzip of its contents), uploads nothing else, and
\* leaves the working directory without any file.
C1_FlushUploadsEachFileOnce ==
    [][ (Reads("STATE") /\ IsStateWith(line', "false") /\ pc' = "loop")
        => /\ flushNo' = flushNo + 1
           /\ \A f \in DOMAIN files :
                \E i \in UploadsOf(uploads', flushNo') :
                  /\ uploads'[i].file = f
                  /\ uploads'[i].data = Gzip(files[f])
                  /\ \A j \in UploadsOf(uploads', flushNo') :
                       uploads'[j].file = f => j = i
           /\ Cardinality(UploadsOf(uploads', flushNo'))
                = Cardinality(DOMAIN files)
           /\ \A i \in DOMAIN uploads : uploads'[i] = uploads[i]
           /\ files' = EmptyDir ]_vars

\* a flush of two buffer files has completed
C1_Witness ==
    /\ pc = "loop"
    /\ IsStateWith(line, "false")
    /\ Cardinality(UploadsOf(uploads, flushNo)) = 2
    /\ files = EmptyDir

\* ------------------------------------------------------------------------
\* C2: at end of input persist_lines returns the value of the most recent
\* STATE line if no RECORD was appended after it, and None otherwise (also
\* when there was no STATE); emit_state writes nothing for None and exactly
\* one line, which decodes to that value, otherwise.
C2_ReturnsPendingState ==
    /\ pc \in {"returned", "done"} =>
         result = IF lastStateAt > lastRecordAt THEN lastStateValue ELSE None
    /\ pc = "done" =>
         IF result = None
         THEN stdout = << >>
         ELSE /\ Len(stdout) = 1
              /\ stdout[1].valid /\ stdout[1].eol
              /\ json_loads(stdout[1]) = result[1]

\* a run whose STATE was followed by a RECORD has ended without output
C2_Witness ==
    /\ pc = "done"
    /\ lastStateAt > 0
    /\ lastRecordAt > lastStateAt
    /\ stdout = << >>

\* ------------------------------------------------------------------------
\* C3 as stated: once a STATE with currently_syncing = false has been
\* processed and its flush completed, Pending State is unset, and if it was
\* the last line nothing is written to stdout.
C3_Original ==
    (IsStateWith(line, "false") /\ pc \in {"loop", "returned", "done"})
    => /\ state = None
       /\ pc = "done" => stdout = << >>

\* C3 amended: once a STATE with currently_syncing = false has been processed
\* and its flush completed, Pending State still is that STATE's value; if it
\* was the last line, persist_lines returns the value and emit_state writes it
\* as the one line of stdout.
C3_StateKeptAfterFlush ==
    (IsStateWith(line, "false") /\ pc \in {"loop", "returned", "done"})
    => /\ state = << line.obj.value >>
       /\ pc \in {"returned", "done"} => result = << line.obj.value >>
       /\ pc = "done" =>
            stdout = << WithNewline(json_dumps(line.obj.value)) >>

\* the run ended on a flushing STATE that uploaded something
C3_Witness ==
    /\ pc = "done"
    /\ IsStateWith(line, "false")
    /\ UploadsOf(uploads, flushNo) # {}
    /\ Len(stdout) = 1

\* ------------------------------------------------------------------------
\* C4: a RECORD for a stream no SCHEMA line was read for fails the run at
\* that line with UnknownStream; no file is created or extended, nothing is
\* uploaded and the registry is unchanged.
C4_UnknownStreamFails ==
    [][ (Reads("RECORD") /\ Has(line'.obj, "stream")
            /\ line'.obj.stream \notin declared)
        => /\ pc' = "failed"
           /\ err' = "UnknownStream"
           /\ UNCHANGED << files, blobs, uploads, schemas, validators,
                           key_properties >> ]_vars

\* a RECORD for an undeclared stream arrived while another stream was
\* declared and buffered
C4_Witness ==
    /\ pc = "failed"
    /\ TypeOf(line) = "RECORD"
    /\ Has(line.obj, "stream")
    /\ line.obj.stream \notin declared
    /\ declared # {}
    /\ files # EmptyDir
    /\ err = "UnknownStream"

\* ------------------------------------------------------------------------
\* C5: a RECORD whose record does not validate against the schema registered
\* for its stream fails the run with a validation error and writes nothing:
\* no buffer file is created, extended or otherwise changed.
C5_InvalidRecordWritesNothing ==
    [][ (Reads("RECORD") /\ Has(line'.obj, "stream") /\ Has(line'.obj, "record")
            /\ line'.obj.stream \in DOMAIN schemas
            /\ ~Validates(Draft4Validator(schemas[line'.obj.stream]),
                          line'.obj.record))
        => /\ pc' = "failed"
           /\ err' = "ValidationError"
           /\ files' = files ]_vars

\* an invalid RECORD arrived for a stream that already has a buffer file
C5_Witness ==
    /\ pc = "failed"
    /\ err = "ValidationError"
    /\ TypeOf(line) = "RECORD"
    /\ Filename(line.obj.stream) \in DOMAIN files

\* ------------------------------------------------------------------------
\* C6: a STATE with currently_syncing = true uploads nothing, leaves every
\* file of the working directory as it is, and its value becomes Pending
\* State.
C6_SyncingStateTouchesNothing ==
    [][ (Reads("STATE") /\ IsStateWith(line', "true"))
        => /\ pc' = "loop"
           /\ UNCHANGED << files, blobs, uploads >>
           /\ state' = << line'.obj.value >> ]_vars

\* a syncing STATE was processed while buffer files existed
C6_Witness ==
    /\ pc = "loop"
    /\ IsStateWith(line, "true")
    /\ files # EmptyDir
    /\ state = << line.obj.value >>

\* ------------------------------------------------------------------------
\* C7: a STATE whose currently_syncing is false, null or absent from the
\* value triggers the flush: unless an upload fails, the run goes on and
\* every buffer file present has been uploaded and removed.
C7_FalsyOrAbsentFlushes ==
    [][ (Reads("STATE") /\ Has(line'.obj, "value")
            /\ (\/ ~Has(line'.obj.value, "currently_syncing")
                \/ line'.obj.value.currently_syncing \in {"false", "null"})
            /\ files # EmptyDir
            /\ err' # "UploadError")
        => /\ pc' = "loop"
           /\ flushNo' = flushNo + 1
           /\ \A f \in DOMAIN files :
                \E i \in UploadsOf(uploads', flushNo') : uploads'[i].file = f
           /\ files' = EmptyDir ]_vars

\* ------------------------------------------------------------------------
\* the failures a message of the input can cause
MessageErrors ==
    { "JSONDecodeError", "MissingType", "MissingStream", "MissingKeyProperties",
      "UnknownMessageType", "UnknownStream", "ValidationError", "KeyError",
      "UploadError" }

\* C8: a run of main in which no message causes a failure ends normally with
\* exit code 0 and at most one line on stdout, the final STATE value.
C8_MainCompletes ==
    (entry = "main" /\ exitCode # -1 /\ err \notin MessageErrors)
    => /\ exitCode = 0
       /\ pc = "done"
       /\ Len(stdout) <= 1
       /\ stdout # << >> => << json_loads(stdout[1]) >> = lastStateValue

\* ------------------------------------------------------------------------
\* C9: an accepted RECORD appends to its stream's buffer file the
\* serialization of the record object alone, followed by one separator.
C9_AppendsRecordOnly ==
    [][ (Reads("RECORD") /\ pc' = "loop")
        => LET name == Filename(line'.obj.stream)
           IN  /\ name \in DOMAIN files'
               /\ files'[name] =
                    Append(ContentOf(files, name),
                           [text |-> json_dumps(line'.obj.record),
                            sep |-> ",\n"]) ]_vars

\* ------------------------------------------------------------------------
\* C10: the timestamp of an uploaded blob's key is the wall-clock time of the
\* flush that uploaded it, so uploads of the same buffer file by flushes at
\* different times go to different blob keys.
C10_KeyFromFlushTime ==
    \A i \in DOMAIN uploads :
      /\ uploads[i].ts = Strftime(uploads[i].at)
      /\ \A j \in DOMAIN uploads :
           (uploads[i].file = uploads[j].file /\ uploads[i].at # uploads[j].at)
           => uploads[i].key # uploads[j].key

\* ------------------------------------------------------------------------
\* the buffer files flush n has uploaded
UploadedBy(log, n) == { log[i].file : i \in UploadsOf(log, n) }

\* C11: when an upload fails during a flush the run fails with the upload
\* error and the upload is not tried again; the failing stream's buffer file
\* is still there, unchanged, next to its compressed artifact; the buffer
\* files the flush had not reached are unchanged; and once the run has failed
\* no further line is read.
C11_UploadFailureLeavesFiles ==
    [][ /\ (Reads("STATE") /\ err' = "UploadError")
           => /\ pc' = "failed"
              /\ flushNo' = flushNo + 1
              /\ nread' = nread + 1
              /\ LET out == OutputFileName(now)
                     done == UploadedBy(uploads', flushNo')
                 IN  /\ done \subseteq DOMAIN files
                     /\ DOMAIN files' = (DOMAIN files \ done) \cup {out}
                     /\ \A f \in DOMAIN files \ done : files'[f] = files[f]
                     /\ \E f \in DOMAIN files \ done :
                          files'[out] = Gzip(files[f])
                     /\ Len(uploads') = Len(uploads) + Cardinality(done)
        /\ err = "UploadError"
           => UNCHANGED << pc, nread, line, files, blobs, uploads, flushNo >>
      ]_vars

\* the second upload of a flush failed: one file is uploaded and gone, the
\* other is left with its artifact
C11_Witness ==
    /\ pc = "failed"
    /\ err = "UploadError"
    /\ Cardinality(UploadsOf(uploads, flushNo)) = 1
    /\ Cardinality(DOMAIN files) = 2
    /\ OutputFileName(now) \in DOMAIN files

\* ------------------------------------------------------------------------
\* C12: the buffer file flushed for a stream is uploaded under the key
\* <stream-name>/<timestamp>.gz, the part before the slash being the stream
\* name of the RECORD messages.
C12_KeyPrefixIsStream ==
    \A i \in DOMAIN uploads :
      \A s \in StreamNames :
        uploads[i].file = Filename(s)
        => uploads[i].key = s \o <<"/">> \o OutputFileName(uploads[i].ts)

\* ------------------------------------------------------------------------
\* the failures of decoding and of the protocol checks
ProtocolErrors ==
    { "JSONDecodeError", "MissingType", "MissingStream", "MissingKeyProperties",
      "UnknownMessageType" }

KnownTypes == {"RECORD", "STATE", "SCHEMA", "ACTIVATE_VERSION"}

\* l is not valid JSON, has no type, is a RECORD or SCHEMA without stream, a
\* SCHEMA without key_properties, or has an unrecognized type
Malformed(l) ==
    \/ ~l.valid
    \/ ~Has(l.obj, "type")
    \/ l.obj.type \notin KnownTypes
    \/ l.obj.type \in {"RECORD", "SCHEMA"} /\ ~Has(l.obj, "stream")
    \/ l.obj.type = "SCHEMA" /\ ~Has(l.obj, "key_properties")

\* C13: each such line fails the run at that line with a decode or protocol
\* error; a line of a recognized type that carries its required fields never
\* fails with one of these errors.
C13_MalformedLinesFail ==
    [][ (pc = "loop" /\ nread' = nread + 1)
        => /\ Malformed(line') => (pc' = "failed" /\ err' \in ProtocolErrors)
           /\ ~Malformed(line') => err' \notin ProtocolErrors ]_vars

\* a line of unknown type ended a run that had buffered a record
C13_Witness ==
    /\ pc = "failed"
    /\ err = "UnknownMessageType"
    /\ Malformed(line)
    /\ files # EmptyDir

\* ------------------------------------------------------------------------
\* C14: once a message has failed the run is over: no further line is read,
\* nothing more is appended, registered or uploaded, and nothing is written
\* to stdout, even if a STATE had been accepted before the failure.
C14_FailureIsFinal ==
    [][ /\ err # ""
           => UNCHANGED << pc, nread, line, state, schemas, validators,
                           key_properties, files, blobs, uploads, flushNo,
                           result, stdout, err, exitCode >>
        /\ err' # ""
           => /\ pc' = "failed"
              /\ exitCode' = 1
              /\ stdout' = << >> ]_vars

\* a run failed after a STATE had been accepted, with input left to read
C14_Witness ==
    /\ pc = "failed"
    /\ err \in MessageErrors
    /\ state # None
    /\ lastStateAt > 0
    /\ lastStateAt < nread
    /\ nread < MaxLines
    /\ stdout = << >>

\* ------------------------------------------------------------------------
\* the registry entries of every stream but s are the same before and after
OthersKept(s) ==
    \A t \in DOMAIN schemas \ {s} :
      /\ t \in DOMAIN schemas' /\ schemas'[t] = schemas[t]
      /\ t \in DOMAIN validators' /\ validators'[t] = validators[t]
      /\ t \in DOMAIN key_properties' /\ key_properties'[t] = key_properties[t]

\* C15: a later SCHEMA for a stream replaces the stream's schema, validator
\* and key properties as a whole and leaves the entries of other streams and
\* every buffer file as they are; a RECORD is accepted exactly when it
\* validates against the schema of the last SCHEMA read for its stream.
C15_LastSchemaWins ==
    [][ /\ (Reads("SCHEMA") /\ pc' = "loop")
           => LET o == line'.obj
              IN  /\ DOMAIN schemas' = DOMAIN schemas \cup {o.stream}
                  /\ DOMAIN validators' = DOMAIN schemas'
                  /\ DOMAIN key_properties' = DOMAIN schemas'
                  /\ schemas'[o.stream] = o.schema
                  /\ validators'[o.stream] = Draft4Validator(o.schema)
                  /\ key_properties'[o.stream] = o.key_properties
                  /\ OthersKept(o.stream)
                  /\ files' = files
        /\ (Reads("RECORD") /\ Has(line'.obj, "stream")
              /\ Has(line'.obj, "record")
              /\ line'.obj.stream \in DOMAIN schemas)
           => (pc' = "loop"
               <=> Validates(Draft4Validator(schemas[line'.obj.stream]),
                             line'.obj.record)) ]_vars

\* a stream's schema was replaced and a record valid only under the new
\* schema was appended after a record valid only under the old one
C15_Witness ==
    /\ pc = "loop"
    /\ TypeOf(line) = "RECORD"
    /\ LET s == line.obj.stream
           f == Filename(s)
       IN  /\ f \in DOMAIN files
           /\ Len(files[f]) = 2
           /\ files[f][2] = Entry(line)
           /\ Validates(validators[s], line.obj.record)
           /\ ~Validates(validators[s], files[f][1].text.obj.record)

\* ------------------------------------------------------------------------
\* C16: a well-formed SCHEMA or ACTIVATE_VERSION leaves Pending State, every
\* buffer file and the uploaded blobs unchanged; SCHEMA changes the registry
\* entry of its own stream only, ACTIVATE_VERSION changes no registry entry.
C16_SchemaAndActivateFrame ==
    [][ /\ (Reads("SCHEMA") /\ ~Malformed(line') /\ Has(line'.obj, "schema"))
           => /\ pc' = "loop"
              /\ UNCHANGED << state, files, blobs, uploads >>
              /\ OthersKept(line'.obj.stream)
        /\ Reads("ACTIVATE_VERSION")
           => /\ pc' = "loop"
              /\ UNCHANGED << state, files, blobs, uploads, schemas,
                              validators, key_properties >> ]_vars

\* an ACTIVATE_VERSION was read while a state was pending and a record
\* buffered
C16_Witness ==
    /\ pc = "loop"
    /\ TypeOf(line) = "ACTIVATE_VERSION"
    /\ state # None
    /\ files # EmptyDir

\* ------------------------------------------------------------------------
\* persist_lines has passed its setup
Started == pc \in {"loop", "returned", "done"} \/ (pc = "failed" /\ nread > 0)

\* C17: whatever the working directory held when the run started, it is empty
\* before the first line is read, and nothing an earlier run left in it is
\* ever in the working directory or in an upload of this run.
C17_WorkDirRecreated ==
    Started
    => /\ nread = 0 => files = EmptyDir
       /\ \A f \in DOMAIN dir0 : \A k \in DOMAIN dir0[f] :
            /\ \A i \in DOMAIN uploads : \A j \in DOMAIN uploads[i].data.gz :
                 uploads[i].data.gz[j] # dir0[f][k]
            /\ \A g \in DOMAIN files \ {OutputFileName(now)} :
                 \A j \in DOMAIN files[g] : files[g][j] # dir0[f][k]

\* a run that started on a directory with a stale file has flushed
C17_Witness ==
    /\ dir0 # EmptyDir
    /\ pc = "loop"
    /\ uploads # << >>
    /\ files = EmptyDir

\* ------------------------------------------------------------------------
\* C18: the telemetry thread runs while main goes on; a step of it changes
\* nothing but its own position, whether the request succeeds or fails; and
\* the outcome of main (working directory, uploads, stdout, failure and exit
\* status) is the same for every interleaving and every outcome of the
\* request as with disable_collection set.
C18_TelemetryIsolated ==
    /\ [][ tele' # tele /\ tele # "none"
           => UNCHANGED << pc, err, exitCode, clock, now, state, schemas,
                           validators, key_properties, files, blobs, uploads,
                           flushNo, line, nread, result, stdout >> ]_vars
    /\ []( (entry = "main" /\ pc \in {"done", "failed"})
           => /\ tele \in IF disable_collection THEN {"none"}
                          ELSE {"started", "sent", "failed"}
              /\ pc = "failed" /\ err = "TypeError" /\ exitCode = 1
              /\ files = dir0
              /\ uploads = << >> /\ blobs = << >> /\ stdout = << >> )

\* the request failed after main had already ended
C18_Witness ==
    /\ entry = "main"
    /\ ~disable_collection
    /\ tele = "failed"
    /\ pc = "failed"
    /\ exitCode = 1

\* ------------------------------------------------------------------------
\* the entries a sequence of accepted RECORD lines leaves in a buffer file
EntriesOf(ls) == [k \in 1..Len(ls) |-> Entry(ls[k])]

\* the buffer file of every stream holds the entries of the RECORD lines of
\* that stream accepted since the last completed flush, in arrival order
BuffersMatch ==
    \A s \in StreamNames : ContentOf(files, Filename(s)) = EntriesOf(pending[s])

\* a step that flushes uploads, for a stream, the accepted lines of that
\* stream since the last completed flush, once each and in order, at most one
\* batch per stream; a flush that completes uploads every stream that has
\* such lines and leaves nothing behind for the next flush
BatchesMatch ==
    (Reads("STATE") /\ flushNo' = flushNo + 1)
    => /\ \A i \in DOMAIN uploads : uploads'[i] = uploads[i]
       /\ \A i \in UploadsOf(uploads', flushNo') :
            /\ i > Len(uploads)
            /\ \E s \in StreamNames :
                 /\ uploads'[i].file = Filename(s)
                 /\ pending[s] # << >>
                 /\ uploads'[i].data = Gzip(EntriesOf(pending[s]))
            /\ \A j \in UploadsOf(uploads', flushNo') :
                 uploads'[j].file = uploads'[i].file => j = i
       /\ pc' = "loop"
          => /\ \A s \in StreamNames :
                  pending[s] # << >>
                  => Filename(s) \in UploadedBy(uploads', flushNo')
             /\ files' = EmptyDir
             /\ \A s \in StreamNames : pending'[s] = << >>

\* C19 as stated: at every point of a run past the setup the buffer files
\* match the lines accepted since the last completed flush, and the batches
\* of a flush are those lines, each once, none of them left for a later flush.
C19_Original ==
    [][ (Started' => BuffersMatch') /\ BatchesMatch ]_vars

\* C19: as long as no upload has failed, the buffer file of a stream holds
\* exactly the RECORD lines of that stream accepted since the last completed
\* flush, one entry per line, in arrival order; the batch a flush uploads for
\* a stream holds each of those lines once, and a completed flush leaves no
\* line for a later one.  When an upload fails, the flush is not completed,
\* yet the buffer files of the streams uploaded before the failure are gone,
\* while those of the other streams still hold their lines.
C19_BufferHoldsAcceptedRecords ==
    [][ /\ (Started' /\ err' # "UploadError") => BuffersMatch'
        /\ BatchesMatch
        /\ (Reads("STATE") /\ err' = "UploadError")
           => \A s \in StreamNames :
                ContentOf(files', Filename(s)) =
                  IF Filename(s) \in UploadedBy(uploads', flushNo')
                  THEN << >>
                  ELSE EntriesOf(pending'[s]) ]_vars

\* after a completed flush a stream has buffered two further records
C19_Witness ==
    /\ pc = "loop"
    /\ uploads # << >>
    /\ \E s \in StreamNames :
         /\ Len(pending[s]) = 2
         /\ ContentOf(files, Filename(s)) = EntriesOf(pending[s])

====
